---------------------------- MODULE Spec2Model ----------------------------
(***************************************************************************)
(* Model of tools/list_rocm_nightly.py: parse_version and the linear       *)
(* script main() (resolve target, fetch listing, extract keys, sort,       *)
(* report).                                                                *)
(*                                                                         *)
(* A Python str is a sequence of one-character strings, so that regular    *)
(* expressions, concatenation, slicing and comparison are computed on the  *)
(* characters.                                                             *)
(***************************************************************************)
EXTENDS Integers, Sequences, FiniteSets, TLC

VARIABLES
    pc,          \* position of main()
    platform,    \* args.platform
    target,      \* args.target
    count,       \* args.count
    quiet,       \* args.quiet
    s3_target,   \* main: s3_target
    prefix,      \* main: prefix
    data,        \* main: data, the elements of the fetched listing text
    candidates,  \* main: candidates
    newest,      \* main: newest
    out,         \* standard output, one entry per printed line
    ppc,         \* position of a stand-alone parse_version call
    fa, fb,      \* the version fields the two argument strings are written from
    va, vb,      \* arguments of parse_version
    ra, rb       \* results of parse_version

vars == <<pc, platform, target, count, quiet, s3_target, prefix, data,
          candidates, newest, out, ppc, fa, fb, va, vb, ra, rb>>

mainVars == <<pc, platform, target, count, quiet, s3_target, prefix, data,
              candidates, newest, out>>

parseVars == <<ppc, fa, fb, va, vb, ra, rb>>

---------------------------------------------------------------------------
(* Bounds of the model.                                                    *)

\* Numbers of the major field and of the prerelease number have at most
\* MaxDigits decimal digits.
MaxDigits == 2

\* minor and patch range over 0..MaxMinor.
MaxMinor == 1

\* A listing holds at most MaxKeys elements.
MaxKeys == 2

\* --count ranges over -1..MaxCount.
MaxCount == 2

---------------------------------------------------------------------------
(* Characters and strings.                                                 *)

\* The characters of code points 32..126 in order; the double quote (34), the
\* apostrophe (39), the backslash (92) and the backtick (96) are written by
\* name.
Printable ==
    <<" ", "!", "QUOTE", "#", "$", "%", "&", "APOSTROPHE", "(", ")", "*", "+", ",", "-", ".", "/",
      "0", "1", "2", "3", "4", "5", "6", "7", "8", "9", ":", ";", "<", "=", ">", "?",
      "@", "A", "B", "C", "D", "E", "F", "G", "H", "I", "J", "K", "L", "M", "N", "O",
      "P", "Q", "R", "S", "T", "U", "V", "W", "X", "Y", "Z", "[", "BACKSLASH", "]", "^", "_",
      "BACKTICK", "a", "b", "c", "d", "e", "f", "g", "h", "i", "j", "k", "l", "m", "n", "o",
      "p", "q", "r", "s", "t", "u", "v", "w", "x", "y", "z", "{", "|", "}", "~">>

\* Code point of a character: "\n" is 10, the printable characters are 32..126.
ord(c) ==
    IF c = "\n" THEN 10
    ELSE 31 + (CHOOSE i \in 1..Len(Printable) : Printable[i] = c)

Digits == <<"0", "1", "2", "3", "4", "5", "6", "7", "8", "9">>

\* \d
IsDigit(c) == \E i \in 1..Len(Digits) : Digits[i] = c

DigitVal(c) == (CHOOSE i \in 1..Len(Digits) : Digits[i] = c) - 1

\* The character at position i (1-based), "" past either end.
At(s, i) == IF i \in 1..Len(s) THEN s[i] ELSE ""

\* The characters of s at the positions i..j that s has (a Python slice
\* stops at the ends of the string).
Sub(s, i, j) ==
    LET lo == IF i < 1 THEN 1 ELSE i
        hi == IF j > Len(s) THEN Len(s) ELSE j
    IN  IF hi < lo THEN <<>> ELSE SubSeq(s, lo, hi)

\* The characters of s from position i on.
From(s, i) == Sub(s, i, Len(s))

\* Python < on str: by code point, a proper prefix is smaller.
StrLess(a, b) ==
    \E i \in 1..Len(b) :
        /\ \A j \in 1..(i - 1) : j <= Len(a) /\ a[j] = b[j]
        /\ \/ i = Len(a) + 1
           \/ i <= Len(a) /\ ord(a[i]) < ord(b[i])

\* Python < on tuples of int of the same length.
TupleLess(x, y) ==
    \E i \in 1..Len(x) :
        /\ \A j \in 1..(i - 1) : x[j] = y[j]
        /\ x[i] < y[i]

\* int() that keeps the last digit only.
int_last_digit(s) ==
    IF s = <<>> THEN 0 ELSE DigitVal(s[Len(s)])

\* int() of a string of decimal digits.
RECURSIVE int(_)
int(s) ==
    IF s = <<>> THEN 0
    ELSE 10 * int(SubSeq(s, 1, Len(s) - 1)) + DigitVal(s[Len(s)])

\* str() of a non-negative int.
RECURSIVE str(_)
str(n) ==
    IF n < 10 THEN <<Digits[n + 1]>>
    ELSE str(n \div 10) \o <<Digits[(n % 10) + 1]>>

\* Greedy \d* from position i: the index of the last digit of the run
\* starting at i, i - 1 when s[i] is no digit.
RECURSIVE DigitRun(_, _)
DigitRun(s, i) ==
    IF i <= Len(s) /\ IsDigit(s[i]) THEN DigitRun(s, i + 1) ELSE i - 1

\* A pattern without its closing $.
no_dollar(s, i) == TRUE

\* $ without re.MULTILINE, tried with i the next position to read: the end
\* of the string, or just before a newline that is the last character.
AtDollar(s, i) ==
    \/ i = Len(s) + 1
    \/ i = Len(s) /\ s[i] = "\n"

---------------------------------------------------------------------------
(* parse_version                                                           *)

NoMatch ==
    [matched |-> FALSE, major |-> <<>>, minor |-> <<>>, patch |-> <<>>,
     pre_type |-> <<>>, pre_num |-> <<>>]

\* re.match(r"(\d+)\.(\d+)\.(\d+)(a|rc)?(\d+)?$", v): the groups, an unmatched
\* optional group being <<>>.  Every quantifier is greedy, and the first
\* attempt decides: a digit run ends before a character that is no digit, so
\* a shorter run is followed by a digit where the pattern wants ".", "a",
\* "rc" or the end, and digits the patch group gives back to (\d+)? end at
\* the same position.
VersionMatch(v) ==
    LET e1 == DigitRun(v, 1)
        e2 == DigitRun(v, e1 + 2)
        e3 == DigitRun(v, e2 + 2)
        t  == IF At(v, e3 + 1) = "a" THEN 1
              ELSE IF At(v, e3 + 1) = "r" /\ At(v, e3 + 2) = "c" THEN 2
              ELSE 0
        e4 == DigitRun(v, e3 + t + 1)
    IN  IF /\ e1 >= 1
           /\ At(v, e1 + 1) = "."
           /\ e2 >= e1 + 2
           /\ At(v, e2 + 1) = "."
           /\ e3 >= e2 + 2
           /\ AtDollar(v, e4 + 1)
        THEN [matched |-> TRUE,
              major |-> SubSeq(v, 1, e1),
              minor |-> SubSeq(v, e1 + 2, e2),
              patch |-> SubSeq(v, e2 + 2, e3),
              pre_type |-> SubSeq(v, e3 + 1, e3 + t),
              pre_num |-> SubSeq(v, e3 + t + 1, e4)]
        ELSE NoMatch

SENTINEL == <<0, 0, 0, 1, 0>>

\* pre_order with the ranks of alpha and rc exchanged.
pre_order_swapped(pre_type) ==
    IF pre_type = <<>> THEN 2 ELSE IF pre_type = <<"a">> THEN 1 ELSE 0

\* alpha=0, rc=1, release=2
pre_order(pre_type) ==
    IF pre_type = <<>> THEN 2 ELSE IF pre_type = <<"a">> THEN 0 ELSE 1

\* parse_version whose grammar knows the alpha suffix only.
parse_version_alpha_only(v) ==
    LET m == VersionMatch(v)
    IN  IF ~m.matched \/ m.pre_type = <<"r", "c">> THEN SENTINEL
        ELSE <<int(m.major), int(m.minor), int(m.patch), pre_order(m.pre_type),
               IF m.pre_num = <<>> THEN 0 ELSE int(m.pre_num)>>

parse_version(v) ==
    LET m == VersionMatch(v)
    IN  IF ~m.matched THEN SENTINEL
        ELSE <<int(m.major), int(m.minor), int(m.patch), pre_order(m.pre_type),
               IF m.pre_num = <<>> THEN 0 ELSE int(m.pre_num)>>

---------------------------------------------------------------------------
(* main(): literals.                                                       *)

S3_BASE ==
    <<"h", "t", "t", "p", "s", ":", "/", "/", "t", "h", "e", "r", "o", "c",
      "k", "-", "n", "i", "g", "h", "t", "l", "y", "-", "t", "a", "r", "b",
      "a", "l", "l", ".", "s", "3", ".", "a", "m", "a", "z", "o", "n", "a",
      "w", "s", ".", "c", "o", "m", "/">>

FetchingHead ==
    <<"F", "e", "t", "c", "h", "i", "n", "g", " ", "S", "3", " ", "l", "i",
      "s", "t", "i", "n", "g", " ", "f", "o", "r", " ", "p", "r", "e", "f",
      "i", "x", ":", " ">>

FetchingTail ==
    <<" ", ".", ".", ".">>

ShowingHead ==
    <<"S", "h", "o", "w", "i", "n", "g", " ">>

ShowingTail ==
    <<" ", "n", "e", "w", "e", "s", "t", " ", "c", "a", "n", "d", "i", "d",
      "a", "t", "e", "(", "s", ")", ":">>

DistHead ==
    <<"t", "h", "e", "r", "o", "c", "k", "-", "d", "i", "s", "t", "-">>

TarGz ==
    <<".", "t", "a", "r", ".", "g", "z">>

Linux ==
    <<"l", "i", "n", "u", "x">>

Windows ==
    <<"w", "i", "n", "d", "o", "w", "s">>

Gfx1151 ==
    <<"g", "f", "x", "1", "1", "5", "1">>

Gfx110X ==
    <<"g", "f", "x", "1", "1", "0", "X">>

Gfx120X ==
    <<"g", "f", "x", "1", "2", "0", "X">>

Dgpu ==
    <<"-", "d", "g", "p", "u">>

All ==
    <<"-", "a", "l", "l">>

---------------------------------------------------------------------------
(* main(): the filename pattern.                                           *)

\* prefix[:-2], which re.escape turns into a literal of the pattern.
pattern_literal(pre) == SubSeq(pre, 1, Len(pre) - 2)

NoGroup == [matched |-> FALSE, group |-> <<>>]

\* The pattern -(\d+\.\d+\.\d+(?:a\d+|rc\d+)?)\.tar\.gz$ after the literal,
\* tried with the literal starting at position i of key.  The quantifiers
\* are greedy and no choice can be revised into a match: a digit run is
\* followed by a character that is no digit, and a key that continues with
\* "a" or "rc" cannot continue with ".tar.gz".
pattern_at(lit, key, i) ==
    LET p  == i + Len(lit) + 1
        e1 == DigitRun(key, p)
        e2 == DigitRun(key, e1 + 2)
        e3 == DigitRun(key, e2 + 2)
        a4 == DigitRun(key, e3 + 2)
        r4 == DigitRun(key, e3 + 3)
        e4 == IF At(key, e3 + 1) = "a" /\ a4 >= e3 + 2 THEN a4
              ELSE IF At(key, e3 + 1) = "r" /\ At(key, e3 + 2) = "c" /\ r4 >= e3 + 3
                   THEN r4
              ELSE e3
    IN  IF /\ Sub(key, i, i + Len(lit) - 1) = lit
           /\ At(key, p - 1) = "-"
           /\ e1 >= p
           /\ At(key, e1 + 1) = "."
           /\ e2 >= e1 + 2
           /\ At(key, e2 + 1) = "."
           /\ e3 >= e2 + 2
           /\ Sub(key, e4 + 1, e4 + Len(TarGz)) = TarGz
           /\ AtDollar(key, e4 + Len(TarGz) + 1)
        THEN [matched |-> TRUE, group |-> SubSeq(key, p, e4)]
        ELSE NoGroup

\* pattern.search(key): the match at the leftmost position that has one.
pattern_search(pre, key) ==
    LET lit == pattern_literal(pre)
        starts == {i \in 1..Len(key) : pattern_at(lit, key, i).matched}
    IN  IF starts = {} THEN NoGroup
        ELSE pattern_at(lit, key, CHOOSE i \in starts : \A j \in starts : i <= j)

---------------------------------------------------------------------------
(* main(): extraction, sort, slice.                                        *)

\* re.findall(r"<Key>([^<]+)</Key>", data): the texts of the Key elements
\* that are not empty and hold no "<", in the order of the listing.
RECURSIVE findall(_)
findall(d) ==
    IF d = <<>> THEN <<>>
    ELSE LET e == Head(d)
         IN  IF /\ e.tag = "Key"
                /\ e.text /= <<>>
                /\ \A i \in 1..Len(e.text) : e.text[i] /= "<"
             THEN <<e.text>> \o findall(Tail(d))
             ELSE findall(Tail(d))

\* The loop without its test: every key is appended.
RECURSIVE extract_unfiltered(_, _)
extract_unfiltered(pre, keys) ==
    IF keys = <<>> THEN <<>>
    ELSE LET m == pattern_search(pre, Head(keys))
         IN  <<<<parse_version(m.group), Head(keys)>>>>
                 \o extract_unfiltered(pre, Tail(keys))

\* The loop over the keys: a key the pattern finds is appended with the
\* parsed version of group 1.
RECURSIVE extract(_, _)
extract(pre, keys) ==
    IF keys = <<>> THEN <<>>
    ELSE LET m == pattern_search(pre, Head(keys))
         IN  IF m.matched
             THEN <<<<parse_version(m.group), Head(keys)>>>> \o extract(pre, Tail(keys))
             ELSE extract(pre, Tail(keys))

\* A comparison of candidates that looks at the version tuple only.
CandLessByVersion(x, y) == TupleLess(x[1], y[1])

\* Python < on the candidate tuples (VersionKey, key).
CandLess(x, y) ==
    \/ TupleLess(x[1], y[1])
    \/ x[1] = y[1] /\ StrLess(x[2], y[2])

\* c put into a descending list behind every entry that is not smaller
\* (entries that compare equal keep the order they arrived in).
RECURSIVE InsertDesc(_, _)
InsertDesc(srt, c) ==
    IF srt = <<>> THEN <<c>>
    ELSE IF CandLess(Head(srt), c) THEN <<c>> \o srt
    ELSE <<Head(srt)>> \o InsertDesc(Tail(srt), c)

\* list.sort(reverse=True)
RECURSIVE sort_reverse(_)
sort_reverse(l) ==
    IF l = <<>> THEN <<>>
    ELSE InsertDesc(sort_reverse(SubSeq(l, 1, Len(l) - 1)), l[Len(l)])

\* l[:n]: a negative n counts from the end.
slice(l, n) ==
    LET stop == IF n < 0 THEN (IF Len(l) + n < 0 THEN 0 ELSE Len(l) + n)
                ELSE IF n < Len(l) THEN n ELSE Len(l)
    IN  SubSeq(l, 1, stop)

fetching_line(pre) == FetchingHead \o pre \o FetchingTail

showing_line(n) == ShowingHead \o str(n) \o ShowingTail

url_line(key) == S3_BASE \o key

url_lines(l) == [i \in 1..Len(l) |-> url_line(l[i][2])]

---------------------------------------------------------------------------
(* Arguments of parse_version.                                             *)

RECURSIVE Pow10(_)
Pow10(k) == IF k = 0 THEN 1 ELSE 10 * Pow10(k - 1)

\* 0 and the numbers on either side of every change of decimal length:
\* 0, 1, 9, 10, 99, 100, ...
EdgeNumbers ==
    {0} \cup {Pow10(k) : k \in 0..(MaxDigits - 1)}
        \cup {Pow10(k) - 1 : k \in 1..(MaxDigits - 1)}

Channels == {"stable", "a", "rc"}

\* The fields of a version MAJOR.MINOR.PATCH, MAJOR.MINOR.PATCHa<N> or
\* MAJOR.MINOR.PATCHrc<N>; a stable version has no number, num is 0.
VersionFields ==
    {f \in [major : EdgeNumbers, minor : 0..MaxMinor, patch : 0..MaxMinor,
            chan : Channels, num : EdgeNumbers] :
        f.chan = "stable" => f.num = 0}

Suffix(f) ==
    IF f.chan = "stable" THEN <<>>
    ELSE IF f.chan = "a" THEN <<"a">> \o str(f.num)
    ELSE <<"r", "c">> \o str(f.num)

\* The version string written from its fields.
VersionString(f) ==
    str(f.major) \o <<".">> \o str(f.minor) \o <<".">> \o str(f.patch) \o Suffix(f)

NoFields == [major |-> 0, minor |-> 0, patch |-> 0, chan |-> "stable", num |-> 0]

IdleMain ==
    /\ pc = "idle"
    /\ platform = <<>>
    /\ target = <<>>
    /\ count = 0
    /\ quiet = FALSE
    /\ s3_target = <<>>
    /\ prefix = <<>>
    /\ data = <<>>
    /\ candidates = <<>>
    /\ newest = <<>>
    /\ out = <<>>

\* Two valid version strings, not yet parsed.
InitOrder ==
    /\ IdleMain
    /\ ppc = "call"
    /\ fa \in VersionFields
    /\ fb \in VersionFields
    /\ va = VersionString(fa)
    /\ vb = VersionString(fb)
    /\ ra = <<>>
    /\ rb = <<>>

\* parse_version(va), parse_version(vb)
ParsePair ==
    /\ ppc = "call"
    /\ ra' = parse_version(va)
    /\ rb' = parse_version(vb)
    /\ ppc' = "returned"
    /\ UNCHANGED <<fa, fb, va, vb>>
    /\ UNCHANGED mainVars

NextOrder == ParsePair

SpecOrder == InitOrder /\ [][NextOrder]_vars

---------------------------------------------------------------------------
(* main(): the run.                                                        *)

Platforms == {Linux, Windows}

\* The default target, the two special targets, and a target that only
\* starts with a special one.
Targets == {Gfx1151, Gfx110X, Gfx120X, Gfx110X \o Dgpu}

IdleParse ==
    /\ ppc = "idle"
    /\ fa = NoFields
    /\ fb = NoFields
    /\ va = <<>>
    /\ vb = <<>>
    /\ ra = <<>>
    /\ rb = <<>>

\* The arguments are parsed; nothing has run yet.
Init ==
    /\ IdleParse
    /\ pc = "resolve"
    /\ platform \in Platforms
    /\ target \in Targets
    /\ count \in -1..MaxCount
    /\ quiet \in BOOLEAN
    /\ s3_target = <<>>
    /\ prefix = <<>>
    /\ data = <<>>
    /\ candidates = <<>>
    /\ newest = <<>>
    /\ out = <<>>

\* The resolved target with the branches of the two special targets exchanged.
resolve_swapped(tg) ==
    IF tg = Gfx110X THEN tg \o All
    ELSE IF tg = Gfx120X THEN tg \o Dgpu
    ELSE tg

resolve(tg) ==
    IF tg = Gfx110X THEN tg \o Dgpu
    ELSE IF tg = Gfx120X THEN tg \o All
    ELSE tg

make_prefix(pl, tg) == DistHead \o pl \o <<"-">> \o tg \o <<"-", "7">>

ResolveTarget ==
    /\ pc = "resolve"
    /\ s3_target' = resolve(target)
    /\ prefix' = make_prefix(platform, s3_target')
    /\ pc' = "announce"
    /\ UNCHANGED <<platform, target, count, quiet, data, candidates, newest, out>>
    /\ UNCHANGED parseVars

\* An informational print that does not look at the quiet flag.
print_always(q, line) == <<line>>

\* The lines an informational print adds to the output.
print_unless(q, line) == IF q THEN <<>> ELSE <<line>>

Announce ==
    /\ pc = "announce"
    /\ out' = out \o print_unless(quiet, fetching_line(prefix))
    /\ pc' = "fetch"
    /\ UNCHANGED <<platform, target, count, quiet, s3_target, prefix, data,
                   candidates, newest>>
    /\ UNCHANGED parseVars

KeyElement(text) == [tag |-> "Key", text |-> text]

\* What a listing can hold, for a prefix: keys of the expected form (a
\* stable, an alpha and an rc version), that form with a character before
\* it, with a newline after it, with a character after it, with another
\* extension, the key of another target, an unrelated key, and an element
\* that is no Key.
Elements(pl, pre) ==
    LET lit == pattern_literal(pre)
        stable == lit \o <<"-", "7", ".", "0", ".", "0">> \o TarGz
    IN  { KeyElement(stable),
          KeyElement(lit \o <<"-", "7", ".", "1", ".", "0", "a", "1">> \o TarGz),
          KeyElement(lit \o <<"-", "7", ".", "0", ".", "1", "r", "c", "2">> \o TarGz),
          KeyElement(<<"x">> \o stable),
          KeyElement(stable \o <<"\n">>),
          KeyElement(stable \o <<"x">>),
          KeyElement(lit \o <<"-", "7", ".", "0", ".", "0", ".", "z", "i", "p">>),
          KeyElement(DistHead \o pl \o <<"-", "g", "f", "x", "9", "0", "a", "-", "7", ".", "0", ".", "0">> \o TarGz),
          KeyElement(<<"i", "n", "d", "e", "x", ".", "h", "t", "m", "l">>),
          [tag |-> "Size", text |-> <<"0">>] }

Listings(pl, pre) ==
    UNION {[1..n -> Elements(pl, pre)] : n \in 0..MaxKeys}

\* urlopen(...).read().decode() returns a listing.
Fetch ==
    /\ pc = "fetch"
    /\ data' \in Listings(platform, prefix)
    /\ pc' = "extract"
    /\ UNCHANGED <<platform, target, count, quiet, s3_target, prefix,
                   candidates, newest, out>>
    /\ UNCHANGED parseVars

\* urlopen raises: the exception is not caught and ends the run.
FetchError ==
    /\ pc = "fetch"
    /\ pc' = "failed"
    /\ UNCHANGED <<platform, target, count, quiet, s3_target, prefix, data,
                   candidates, newest, out>>
    /\ UNCHANGED parseVars

Extract ==
    /\ pc = "extract"
    /\ candidates' = extract(prefix, findall(data))
    /\ pc' = "sort"
    /\ UNCHANGED <<platform, target, count, quiet, s3_target, prefix, data,
                   newest, out>>
    /\ UNCHANGED parseVars

Sort ==
    /\ pc = "sort"
    /\ candidates' = sort_reverse(candidates)
    /\ newest' = IF candidates' /= <<>> THEN slice(candidates', count) ELSE <<>>
    /\ pc' = "report"
    /\ UNCHANGED <<platform, target, count, quiet, s3_target, prefix, data, out>>
    /\ UNCHANGED parseVars

Report ==
    /\ pc = "report"
    /\ out' = out \o print_unless(quiet, showing_line(Len(newest)))
                  \o url_lines(newest)
    /\ pc' = "done"
    /\ UNCHANGED <<platform, target, count, quiet, s3_target, prefix, data,
                   candidates, newest>>
    /\ UNCHANGED parseVars

Next ==
    \/ ResolveTarget
    \/ Announce
    \/ Fetch
    \/ FetchError
    \/ Extract
    \/ Sort
    \/ Report

Spec == Init /\ [][Next]_vars

---------------------------------------------------------------------------
(* Ordering of parsed versions.                                            *)

\* Channel c is older than channel d: alpha < rc < stable.
ChannelOlder(c, d) ==
    \/ c = "a" /\ d \in {"rc", "stable"}
    \/ c = "rc" /\ d = "stable"

\* Semantic-version plus channel ordering of two versions given by fields.
SemanticOlder(f, g) ==
    \/ f.major < g.major
    \/ /\ f.major = g.major
       /\ \/ f.minor < g.minor
          \/ /\ f.minor = g.minor
             /\ \/ f.patch < g.patch
                \/ /\ f.patch = g.patch
                   /\ \/ ChannelOlder(f.chan, g.chan)
                      \/ f.chan = g.chan /\ f.num < g.num

\* C1: for two valid version strings, the tuples of parse_version compare as
\* the versions do: (major, minor, patch) numerically first, then
\* alpha < rc < stable, then the smaller prerelease number is older; the
\* tuples are equal only when all these components are equal.
C1_OrderAgrees ==
    ppc = "returned" =>
        /\ TupleLess(ra, rb) <=> SemanticOlder(fa, fb)
        /\ TupleLess(rb, ra) <=> SemanticOlder(fb, fa)
        /\ (ra = rb) <=> (fa = fb)

\* 10.0.0a1 has been parsed above 9.1.1.
C1_Witness ==
    /\ ppc = "returned"
    /\ va = <<"1", "0", ".", "0", ".", "0", "a", "1">>
    /\ vb = <<"9", ".", "1", ".", "1">>
    /\ TupleLess(rb, ra)

Nonzero(f) == <<f.major, f.minor, f.patch>> /= <<0, 0, 0>>

\* C9 as stated: among the valid version strings there is an alpha version
\* of a version above 0.0.0 that parse_version puts strictly below the
\* sentinel tuple.
C9_SentinelOutranksHigherAlpha ==
    ppc = "returned" =>
        \E f \in VersionFields :
            /\ f.chan = "a"
            /\ Nonzero(f)
            /\ TupleLess(parse_version(VersionString(f)), SENTINEL)

\* C9, amended: every valid alpha version of a version above 0.0.0 parses
\* strictly above the sentinel tuple; the alpha versions the sentinel
\* outranks are those of version 0.0.0 itself.
C9_HigherAlphaAboveSentinel ==
    (ppc = "returned" /\ fa.chan = "a") =>
        IF Nonzero(fa) THEN TupleLess(SENTINEL, ra) ELSE TupleLess(ra, SENTINEL)

\* 10.0.0a1 has been parsed, above the sentinel.
C9_Witness ==
    /\ ppc = "returned"
    /\ va = <<"1", "0", ".", "0", ".", "0", "a", "1">>
    /\ ra = <<10, 0, 0, 0, 1>>
    /\ TupleLess(SENTINEL, ra)

---------------------------------------------------------------------------
(* parse_version on arbitrary strings.                                     *)

EditChars == {"0", "7", ".", "a", "r", "c", "x", "-", "\n"}

Insert(s, i, c) == SubSeq(s, 1, i - 1) \o <<c>> \o From(s, i)

Delete(s, i) == SubSeq(s, 1, i - 1) \o From(s, i + 1)

Replace(s, i, c) == SubSeq(s, 1, i - 1) \o <<c>> \o From(s, i + 1)

\* s and every string one insertion, deletion or replacement away from it.
Edits(s) ==
    {s} \cup {Insert(s, i, c) : i \in 1..(Len(s) + 1), c \in EditChars}
        \cup {Delete(s, i) : i \in 1..Len(s)}
        \cup {Replace(s, i, c) : i \in 1..Len(s), c \in EditChars}

NotAVersion ==
    <<"n", "o", "t", "-", "a", "-", "v", "e", "r", "s", "i", "o", "n">>

\* Any string: a valid version string or one edit away from one, the empty
\* string, "not-a-version".
InitTotal ==
    /\ IdleMain
    /\ ppc = "call"
    /\ fa \in VersionFields
    /\ fb = NoFields
    /\ va \in Edits(VersionString(fa)) \cup {<<>>, NotAVersion}
    /\ vb = <<>>
    /\ ra = <<>>
    /\ rb = <<>>

\* parse_version(va)
ParseOne ==
    /\ ppc = "call"
    /\ ra' = parse_version(va)
    /\ ppc' = "returned"
    /\ UNCHANGED <<fa, fb, va, vb, rb>>
    /\ UNCHANGED mainVars

NextTotal == ParseOne

SpecTotal == InitTotal /\ [][NextTotal]_vars

AllDigits(s) == \A i \in 1..Len(s) : IsDigit(s[i])

\* s is MAJOR.MINOR.PATCH followed by an optional "a" or "rc" and an
\* optional number, and nothing else.
IsVersionGrammar(s) ==
    \E i \in 1..Len(s), j \in 1..Len(s), k \in 1..Len(s), t \in 0..2 :
        /\ i + 1 < j /\ j + 1 < k /\ k + t <= Len(s)
        /\ AllDigits(SubSeq(s, 1, i))
        /\ s[i + 1] = "."
        /\ AllDigits(SubSeq(s, i + 2, j))
        /\ s[j + 1] = "."
        /\ AllDigits(SubSeq(s, j + 2, k))
        /\ t = 1 => s[k + 1] = "a"
        /\ t = 2 => s[k + 1] = "r" /\ s[k + 2] = "c"
        /\ AllDigits(From(s, k + t + 1))

\* C2: a string that does not match the grammar parses to exactly the
\* sentinel tuple; a string that matches parses to a 5-tuple whose fourth
\* component is 0, 1 or 2.
C2_SentinelIffNoGrammar ==
    ppc = "returned" =>
        IF IsVersionGrammar(va)
        THEN Len(ra) = 5 /\ ra[4] \in {0, 1, 2}
        ELSE ra = SENTINEL

---------------------------------------------------------------------------
(* Properties of main().                                                   *)

\* C3: the resolved target is the target with "-dgpu" appended when it is
\* exactly gfx110X, with "-all" appended when it is exactly gfx120X, and the
\* target unchanged otherwise; the prefix is
\* therock-dist-{platform}-{resolved target}-7.
C3_TargetResolution ==
    pc /= "resolve" =>
        /\ target = Gfx110X => s3_target = <<"g", "f", "x", "1", "1", "0", "X", "-", "d", "g", "p", "u">>
        /\ target = Gfx120X => s3_target = <<"g", "f", "x", "1", "2", "0", "X", "-", "a", "l", "l">>
        /\ target \notin {Gfx110X, Gfx120X} => s3_target = target
        /\ prefix = DistHead \o platform \o <<"-">> \o s3_target \o <<"-", "7">>

\* A run for windows and gfx110X has ended with the prefix
\* therock-dist-windows-gfx110X-dgpu-7.
C3_Witness ==
    /\ pc = "done"
    /\ target = Gfx110X
    /\ prefix = <<"t", "h", "e", "r", "o", "c", "k", "-", "d", "i", "s", "t", "-", "w", "i", "n", "d", "o", "w", "s", "-", "g", "f", "x", "1", "1", "0", "X", "-", "d", "g", "p", "u", "-", "7">>

\* s is digits.digits.digits, optionally followed by a<digits> or rc<digits>.
IsArtifactVersion(s) ==
    \E i \in 1..Len(s), j \in 1..Len(s), k \in 1..Len(s) :
        /\ i + 1 < j /\ j + 1 < k
        /\ AllDigits(SubSeq(s, 1, i))
        /\ s[i + 1] = "."
        /\ AllDigits(SubSeq(s, i + 2, j))
        /\ s[j + 1] = "."
        /\ AllDigits(SubSeq(s, j + 2, k))
        /\ LET rest == From(s, k + 1)
           IN  \/ rest = <<>>
               \/ /\ Len(rest) >= 2
                  /\ rest[1] = "a"
                  /\ AllDigits(From(rest, 2))
               \/ /\ Len(rest) >= 3
                  /\ rest[1] = "r" /\ rest[2] = "c"
                  /\ AllDigits(From(rest, 3))

\* key is therock-dist-{platform}-{resolved target}-{version}.tar.gz.
HasArtifactForm(key) ==
    LET head == DistHead \o platform \o <<"-">> \o s3_target \o <<"-">>
        n == Len(key) - Len(TarGz)
    IN  /\ n > Len(head)
        /\ Sub(key, 1, Len(head)) = head
        /\ From(key, n + 1) = TarGz
        /\ IsArtifactVersion(Sub(key, Len(head) + 1, n))

\* key without the newline it may end with.
Chomp(key) ==
    IF key /= <<>> /\ key[Len(key)] = "\n" THEN Sub(key, 1, Len(key) - 1) ELSE key

\* key, a closing newline apart, ends with a name of the artifact form.
EndsWithArtifactForm(key) ==
    \E i \in 1..Len(key) : HasArtifactForm(From(Chomp(key), i))

IsKeyElement(e) == e.tag = "Key"

\* The keys of the listing, in its order.
ListingKeys ==
    LET ks == SelectSeq(data, IsKeyElement) IN [i \in 1..Len(ks) |-> ks[i].text]

CandidateKeys == [i \in 1..Len(candidates) |-> candidates[i][2]]

\* C4 as stated: the keys retained are exactly the keys that are
\* therock-dist-{platform}-{resolved target}-{version}.tar.gz and nothing
\* else, once per occurrence in the listing.
C4_RetainsExactForm ==
    pc = "sort" => CandidateKeys = SelectSeq(ListingKeys, HasArtifactForm)

\* C4, amended: the keys retained are exactly the keys that end, a closing
\* newline apart, with therock-dist-{platform}-{resolved target}-{version}.tar.gz
\* (characters before the name do not matter), once per occurrence and in
\* the order of the listing; every other key is dropped.
C4_RetainsNameAtEnd ==
    pc = "sort" => CandidateKeys = SelectSeq(ListingKeys, EndsWithArtifactForm)

\* A key with a character before the name has been retained from a listing
\* that also holds a key the extractor dropped.
C4_Witness ==
    /\ pc = "sort"
    /\ Len(candidates) = 1
    /\ candidates[1][2][1] = "x"
    /\ Len(ListingKeys) = 2

IsUrl(line) == Sub(line, 1, Len(S3_BASE)) = S3_BASE

IsInfo(line) == ~IsUrl(line)

\* The URL lines printed so far.
UrlLines == SelectSeq(out, IsUrl)

NonIncreasing(l) ==
    \A i \in 1..Len(l), j \in 1..Len(l) : i < j => ~TupleLess(l[i][1], l[j][1])

\* C5: the URLs printed are those of the first N entries of the candidates
\* sorted by VersionKey, descending, all of them when there are fewer than
\* N: no more than N lines (none for an N below 0), in non-increasing order
\* of VersionKey, and no candidate left out is above a printed one.
C5_PrintsFirstN ==
    pc = "done" =>
        LET n == Len(UrlLines)
            most == IF count < 0 THEN 0 ELSE count
        IN  /\ n = (IF most < Len(candidates) THEN most ELSE Len(candidates))
            /\ n <= most
            /\ NonIncreasing(candidates)
            /\ UrlLines = [i \in 1..n |-> S3_BASE \o candidates[i][2]]
            /\ \A i \in 1..n, j \in (n + 1)..Len(candidates) :
                   ~TupleLess(candidates[i][1], candidates[j][1])

\* The URL lines a run prints, from what it is given other than the quiet flag.
UrlsOfRun ==
    url_lines(slice(sort_reverse(extract(make_prefix(platform, resolve(target)),
                                         findall(data))), count))

\* C6: the URL lines depend on platform, target, count and listing only;
\* with quiet set no informational line is printed, without it the Fetching
\* line is printed before the fetch and the Showing line before the first
\* URL.
C6_QuietOnlyInfo ==
    /\ pc = "fetch" => out = (IF quiet THEN <<>> ELSE <<fetching_line(prefix)>>)
    /\ pc = "done" =>
           LET urls == UrlsOfRun
               info == <<fetching_line(prefix), showing_line(Len(urls))>>
           IN  /\ UrlLines = urls
               /\ out = (IF quiet THEN <<>> ELSE info) \o urls

\* A quiet run has printed two URLs and nothing else.
C6_Witness ==
    /\ pc = "done"
    /\ quiet
    /\ Len(out) = 2
    /\ IsUrl(out[1]) /\ IsUrl(out[2])

NoKeyMatches == \A i \in 1..Len(ListingKeys) : ~EndsWithArtifactForm(ListingKeys[i])

Fetched == pc \in {"extract", "sort", "report", "done"}

\* What holds of a run whose listing has no matching key: no candidate is
\* found, no URL line is printed and, unless quiet, the last line printed is
\* "Showing 0 newest candidate(s):".
C7_AtEnd ==
    (Fetched /\ NoKeyMatches) =>
        /\ pc /= "extract" => candidates = <<>>
        /\ pc = "done" =>
               /\ UrlLines = <<>>
               /\ ~quiet => out = <<fetching_line(prefix),
                                     <<"S", "h", "o", "w", "i", "n", "g", " ", "0", " ", "n", "e", "w", "e", "s", "t", " ", "c", "a", "n", "d", "i", "d", "a", "t", "e", "(", "s", ")", ":">>>>
               /\ quiet => out = <<>>

\* Every step of such a run after the fetch is a step to the next stage,
\* none leads to the failure.
C7_Step ==
    (Fetched /\ NoKeyMatches) =>
        \/ pc = "extract" /\ pc' = "sort"
        \/ pc = "sort" /\ pc' = "report"
        \/ pc = "report" /\ pc' = "done"

\* C7: when no key of the listing matches (a listing without a Key element
\* included), the run goes on to its end whatever the count: zero URL lines
\* are printed, the status line, unless quiet, reports 0 newest candidates,
\* and no error state is reached.
C7_NoMatchIsSuccess == [](C7_AtEnd) /\ [][C7_Step]_vars

\* A run that is not quiet has ended on a listing of two keys, none of
\* which matches.
C7_Witness ==
    /\ pc = "done"
    /\ ~quiet
    /\ count = 2
    /\ Len(ListingKeys) = 2
    /\ NoKeyMatches
    /\ Len(out) = 2

Sorted == pc \in {"report", "done"}

\* C8 as stated: of two candidates with the same VersionKey and different
\* keys, the one later in the listing comes first in the sorted list.
C8_TiesReverseListing ==
    Sorted =>
        \A p \in 1..Len(ListingKeys), q \in 1..Len(ListingKeys) :
            ( /\ p < q
              /\ ListingKeys[p] /= ListingKeys[q]
              /\ \E i \in 1..Len(candidates), j \in 1..Len(candidates) :
                     /\ candidates[i][2] = ListingKeys[p]
                     /\ candidates[j][2] = ListingKeys[q]
                     /\ candidates[i][1] = candidates[j][1] )
            => \E i \in 1..Len(candidates), j \in 1..Len(candidates) :
                   /\ i < j
                   /\ candidates[i][2] = ListingKeys[q]
                   /\ candidates[j][2] = ListingKeys[p]

\* C8, amended: candidates with the same VersionKey and different keys
\* appear in descending order of their key strings (by code point),
\* whatever their order in the listing.
C8_TiesByKeyDescending ==
    Sorted =>
        \A i \in 1..Len(candidates), j \in 1..Len(candidates) :
            (i < j /\ candidates[i][1] = candidates[j][1])
                => ~StrLess(candidates[i][2], candidates[j][2])

\* Two candidates tie on the VersionKey, and the sorted list has them in the
\* order of the listing.
C8_Witness ==
    /\ Sorted
    /\ Len(candidates) = 2
    /\ candidates[1][1] = candidates[2][1]
    /\ candidates[1][2] /= candidates[2][2]
    /\ ListingKeys = <<candidates[1][2], candidates[2][2]>>

\* The versions of the keys a listing can hold.
KeyVersionFields ==
    [major : {7}, minor : 0..1, patch : 0..1, chan : Channels, num : 0..2]

ChannelRank(c) == IF c = "a" THEN 0 ELSE IF c = "rc" THEN 1 ELSE 2

\* C10: the version the pattern captures from a candidate's key always
\* matches the grammar of parse_version, so no candidate carries the tuple
\* of the no-match branch, and the VersionKey of every candidate is
\* (major, minor, patch, channel rank, prerelease number) of the version in
\* its key.
C10_FallbackUnreachable ==
    (Fetched /\ pc /= "extract") =>
        \A i \in 1..Len(candidates) :
            LET v == pattern_search(prefix, candidates[i][2]).group
            IN  /\ VersionMatch(v).matched
                /\ IsArtifactVersion(v)
                /\ \E f \in KeyVersionFields :
                       /\ f.chan = "stable" => f.num = 0
                       /\ v = VersionString(f)
                       /\ candidates[i][1] =
                              <<f.major, f.minor, f.patch, ChannelRank(f.chan), f.num>>

\* The rc and the alpha key of a listing are candidates with the keys
\* (7, 1, 0, 0, 1) and (7, 0, 1, 1, 2).
C10_Witness ==
    /\ pc = "done"
    /\ Len(candidates) = 2
    /\ candidates[1][1] = <<7, 1, 0, 0, 1>>
    /\ candidates[2][1] = <<7, 0, 1, 1, 2>>

=============================================================================
